---- MODULE Spec2Model ----
(***************************************************************************)
(* Model of the serenity-js.org documentation tooling:                     *)
(*   - the changelog plugin (plugins/changelog/index.js): processSection   *)
(*     and the loadContent lifecycle hook, with the module-level           *)
(*     publishTimes set and authorsMap registry;                           *)
(*   - the API index view (components/ApiIndex.tsx): addVersionToUrl and   *)
(*     the redirect effect.                                                *)
(* JavaScript strings are modelled as sequences of one-character strings,  *)
(* and every regular expression of the source is an operator over them.    *)
(***************************************************************************)
EXTENDS Integers, Sequences, FiniteSets, TLC

\* ------------------------------------------------------------------------
\* Bounds
\* ------------------------------------------------------------------------

\* Number of loadContent invocations in one process (the changelog is a
\* watched path, so the hook runs again whenever the file changes).
MaxRuns == 2

\* Number of times the index view's effect runs while the view is mounted.
MaxEffects == 3

\* ------------------------------------------------------------------------
\* Strings
\* ------------------------------------------------------------------------

NL == "\n"

\* JavaScript's undefined / null; "absent" results of String.prototype.match.
\* (a one-element sequence that no sequence of characters equals)
undefined == <<"undefined">>
NoMatch == [found |-> FALSE]

Min(S) == CHOOSE x \in S : \A y \in S : x <= y
Max(S) == CHOOSE x \in S : \A y \in S : x >= y

\* The literal lit occurs in s at index i (1-based).
StartsAt(s, i, lit) ==
    /\ i >= 1
    /\ i + Len(lit) - 1 <= Len(s)
    /\ \A k \in 1..Len(lit) : s[i + k - 1] = lit[k]

\* String.prototype.indexOf, 1-based, 0 when absent.
IndexOf(s, lit) ==
    LET at == {i \in 1..(Len(s) - Len(lit) + 1) : StartsAt(s, i, lit)}
    IN  IF at = {} THEN 0 ELSE Min(at)

includes(s, lit) == IndexOf(s, lit) # 0

endsWith(s, lit) == Len(lit) <= Len(s) /\ StartsAt(s, Len(s) - Len(lit) + 1, lit)

\* String.prototype.replace with a string pattern: the first occurrence only.
ReplaceFirst(s, lit, rep) ==
    LET i == IndexOf(s, lit)
    IN  IF i = 0 THEN s
        ELSE SubSeq(s, 1, i - 1) \o rep \o SubSeq(s, i + Len(lit), Len(s))

\* String.prototype.replace with /c/g for a one-character pattern c
\* (computed by halves, every character is replaced on its own).
RECURSIVE ReplaceAllChar(_, _, _)
ReplaceAllChar(s, c, rep) ==
    IF Len(s) = 0 THEN <<>>
    ELSE IF Len(s) = 1 THEN (IF s[1] = c THEN rep ELSE s)
    ELSE ReplaceAllChar(SubSeq(s, 1, Len(s) \div 2), c, rep)
         \o ReplaceAllChar(SubSeq(s, Len(s) \div 2 + 1, Len(s)), c, rep)

\* Index of the first line terminator at or after i; Len(s) + 1 when none.
\* The "." of the source's patterns matches up to, not including, that index.
LineEnd(s, i) ==
    LET nls == {k \in i..Len(s) : s[k] = NL}
    IN  IF nls = {} THEN Len(s) + 1 ELSE Min(nls)

WhiteSpace == {" ", NL, "\t"}

\* String.prototype.trim.
trim(s) ==
    LET solid == {k \in 1..Len(s) : s[k] \notin WhiteSpace}
    IN  IF solid = {} THEN <<>> ELSE SubSeq(s, Min(solid), Max(solid))

RECURSIVE join(_, _)
\* Array.prototype.join.
join(parts, sep) ==
    IF parts = <<>> THEN <<>>
    ELSE IF Len(parts) = 1 THEN parts[1]
    ELSE parts[1] \o sep \o join(Tail(parts), sep)

Digits == {"0", "1", "2", "3", "4", "5", "6", "7", "8", "9"}

DigitChar(d) == <<"0", "1", "2", "3", "4", "5", "6", "7", "8", "9">>[d + 1]

RECURSIVE NatToString(_)
NatToString(n) ==
    IF n < 10 THEN <<DigitChar(n)>> ELSE NatToString(n \div 10) \o <<DigitChar(n % 10)>>

\* Number-to-string conversion of a template literal `${hour}`.
NumberToString(n) == IF n < 0 THEN <<"-">> \o NatToString(0 - n) ELSE NatToString(n)

\* ------------------------------------------------------------------------
\* plugins/changelog/index.js: patterns
\* ------------------------------------------------------------------------

StartHour == 20

\* Variant: `\n## \[`, second-level headings only.
HashesAt_two(s, p) ==
    IF /\ p + 4 <= Len(s)
       /\ s[p] = NL /\ s[p + 1] = "#" /\ s[p + 2] = "#" /\ s[p + 3] = " " /\ s[p + 4] = "["
    THEN 2 ELSE 0

\* `\n#{1,3} \[` at index p: the number of hashes, 0 when it does not match.
HashesAt(s, p) ==
    LET hs == {h \in 1..3 :
                 /\ p + h + 2 <= Len(s)
                 /\ s[p] = NL
                 /\ \A k \in 1..h : s[p + k] = "#"
                 /\ s[p + h + 1] = " "
                 /\ s[p + h + 2] = "["}
    IN  IF hs = {} THEN 0 ELSE Max(hs)

\* Ends of the three groups of a heading whose first group starts at vs:
\* a is the index of `](`, b of `) (`, c of the closing `)`; all on one line.
DateEnds(s, b, e) == {c \in (b + 3)..(e - 1) : s[c] = ")"}

LinkEnds(s, a, e) ==
    {b \in (a + 2)..(e - 3) :
        /\ s[b] = ")" /\ s[b + 1] = " " /\ s[b + 2] = "("
        /\ DateEnds(s, b, e) # {}}

VersionEnds(s, vs, e) ==
    {a \in vs..(e - 2) :
        /\ s[a] = "]" /\ s[a + 1] = "("
        /\ LinkEnds(s, a, e) # {}}

\* sectionLimitPattern, the lookahead `(?=\n#{1,3} \[.*\]\(.*\) \(.*?\))`,
\* tried at index p.
sectionLimitPattern(s, p) ==
    LET h == HashesAt(s, p)
    IN  /\ h # 0
        /\ VersionEnds(s, p + h + 3, LineEnd(s, p + h + 3)) # {}

\* `\n` followed by titlePattern, tried at index p. The three named groups
\* are lazy: each takes the shortest text that lets the rest match.
titlePatternAt(s, p) ==
    LET h  == HashesAt(s, p)
        vs == p + h + 3
        e  == LineEnd(s, vs)
    IN  IF h = 0 \/ VersionEnds(s, vs, e) = {} THEN NoMatch
        ELSE LET a == Min(VersionEnds(s, vs, e))
                 b == Min(LinkEnds(s, a, e))
                 c == Min(DateEnds(s, b, e))
             IN  [found        |-> TRUE,
                  index        |-> p,
                  text         |-> SubSeq(s, p, c),
                  version      |-> SubSeq(s, vs, a - 1),
                  compare_link |-> SubSeq(s, a + 2, b - 1),
                  release_date |-> SubSeq(s, b + 3, c - 1)]

\* section.match(new RegExp(`\n${ titlePattern }`)): the leftmost match.
titleLineMatch(section) ==
    LET ps == {p \in 1..Len(section) : titlePatternAt(section, p).found}
    IN  IF ps = {} THEN NoMatch ELSE titlePatternAt(section, Min(ps))

\* String.prototype.split on the lookahead: the text is cut before every
\* index but the first where the lookahead matches; an empty text gives one
\* empty chunk.
RECURSIVE Cut(_, _, _)
Cut(s, from, cuts) ==
    IF cuts = {} THEN <<SubSeq(s, from, Len(s))>>
    ELSE LET q == Min(cuts)
         IN  <<SubSeq(s, from, q - 1)>> \o Cut(s, q, cuts \ {q})

split(s) == Cut(s, 1, {p \in 2..Len(s) : sectionLimitPattern(s, p)})

\* fileContent.replace(/</g, '&lt;').replace(/>/g, '&gt;')
\*            .replace('@serenity-js/', '\@serenity-js/')
\* ('\@' is the one character '@', so the last replacement puts back the
\* text it finds).
ScopeToken == <<"@", "s", "e", "r", "e", "n", "i", "t", "y", "-", "j", "s", "/">>

sanitise(fileContent) ==
    ReplaceFirst(
        ReplaceAllChar(
            ReplaceAllChar(fileContent, "<", <<"&", "l", "t", ";">>),
            ">", <<"&", "g", "t", ";">>),
        ScopeToken, ScopeToken)

\* content.match(/## Committers: \d.*/s): from the leftmost header to the
\* end of the content (the s flag lets "." cross lines).
CommittersToken ==
    <<"#", "#", " ", "C", "o", "m", "m", "i", "t", "t", "e", "r", "s", ":", " ">>

committersMatch(content) ==
    LET at == {i \in 1..(Len(content) - Len(CommittersToken)) :
                 /\ StartsAt(content, i, CommittersToken)
                 /\ content[i + Len(CommittersToken)] \in Digits}
    IN  IF at = {} THEN NoMatch
        ELSE [found |-> TRUE, text |-> SubSeq(content, Min(at), Len(content))]

\* block.match(/- .*/g): every "- " with the rest of its line, left to
\* right, not overlapping; the empty sequence stands for null.
RECURSIVE bulletLines(_, _)
bulletLines(s, from) ==
    LET at == {i \in from..(Len(s) - 1) : s[i] = "-" /\ s[i + 1] = " "}
    IN  IF at = {} THEN <<>>
        ELSE LET i == Min(at)
                 e == LineEnd(s, i)
             IN  <<SubSeq(s, i, e - 1)>> \o bulletLines(s, e)

\* /- (?:(?<name>.*?) \()?\[@(?<alias>.*)\]\((?<url>.*?)\)\)?/ on one line.
\* After `[@` at index a0 - 2: alias is greedy (the last `](` that a `)`
\* follows), url is lazy (up to the first `)`).
AliasEnds(line, a0) ==
    {r \in a0..(Len(line) - 1) :
        /\ line[r] = "]" /\ line[r + 1] = "("
        /\ \E u \in (r + 2)..Len(line) : line[u] = ")"}

committerTail(line, a0) ==
    LET r == Max(AliasEnds(line, a0))
        u == Min({k \in (r + 2)..Len(line) : line[k] = ")"})
    IN  [alias |-> SubSeq(line, a0, r - 1), url |-> SubSeq(line, r + 2, u - 1)]

\* The optional group taken: name ends before ` (` at index n, with `[@` next.
NameEnds(line, i) ==
    {n \in (i + 2)..(Len(line) - 3) :
        /\ line[n] = " " /\ line[n + 1] = "("
        /\ line[n + 2] = "[" /\ line[n + 3] = "@"
        /\ AliasEnds(line, n + 4) # {}}

\* The optional group skipped: `[@` right after "- ".
BareAt(line, i) ==
    /\ i + 3 <= Len(line)
    /\ line[i + 2] = "[" /\ line[i + 3] = "@"
    /\ AliasEnds(line, i + 4) # {}

committerPatternAt(line, i) ==
    /\ i + 1 <= Len(line)
    /\ line[i] = "-" /\ line[i + 1] = " "
    /\ (NameEnds(line, i) # {} \/ BareAt(line, i))

\* line.match(...).groups; NoMatch stands for the null that match returns.
committerMatch(line) ==
    LET is == {i \in 1..Len(line) : committerPatternAt(line, i)}
    IN  IF is = {} THEN NoMatch
        ELSE LET i == Min(is)
             IN  IF NameEnds(line, i) # {}
                 THEN LET n == Min(NameEnds(line, i))
                          t == committerTail(line, n + 4)
                      IN  [found |-> TRUE, name |-> SubSeq(line, i + 2, n - 1),
                           alias |-> t.alias, url |-> t.url]
                 ELSE LET t == committerTail(line, i + 4)
                      IN  [found |-> TRUE, name |-> undefined,
                           alias |-> t.alias, url |-> t.url]


\* ------------------------------------------------------------------------
\* plugins/changelog/index.js: processSection
\* ------------------------------------------------------------------------

\* Collation order of the characters the model uses, for localeCompare:
\* white space, punctuation, symbols, digits, letters.
CharOrder ==
    <<NL, " ", "_", "-", ",", ";", ":", "!", ".", "'", "(", ")", "[", "]", "@",
      "*", "/", "&", "#", "<", ">", "0", "1", "2", "3", "4", "5", "6", "7",
      "8", "9", "a", "b", "c", "C", "d", "e", "f", "g", "h", "i", "j", "k", "l",
      "m", "n", "o", "p", "q", "r", "s", "t", "T", "u", "v", "w", "x", "y", "z">>

Rank(c) == CHOOSE k \in 1..Len(CharOrder) : CharOrder[k] = c

\* a.localeCompare(b) < 0
RECURSIVE localeBefore(_, _)
localeBefore(a, b) ==
    IF b = <<>> THEN FALSE
    ELSE IF a = <<>> THEN TRUE
    ELSE IF Head(a) = Head(b) THEN localeBefore(Tail(a), Tail(b))
    ELSE Rank(Head(a)) < Rank(Head(b))

\* Array.prototype.sort((a, b) => a.url.localeCompare(b.url)): stable.
RECURSIVE insertByUrl(_, _)
insertByUrl(sorted, author) ==
    IF sorted = <<>> THEN <<author>>
    ELSE IF localeBefore(author.url, Head(sorted).url)
         THEN <<author>> \o sorted
         ELSE <<Head(sorted)>> \o insertByUrl(Tail(sorted), author)

RECURSIVE sortByUrl(_)
sortByUrl(authors) ==
    IF authors = <<>> THEN <<>>
    ELSE insertByUrl(sortByUrl(SubSeq(authors, 1, Len(authors) - 1)),
                     authors[Len(authors)])

GithubPrefix ==
    <<"h", "t", "t", "p", "s", ":", "/", "/", "g", "i", "t", "h", "u", "b", ".",
      "c", "o", "m", "/">>

PngSuffix == <<".", "p", "n", "g">>

\* Variant: the name group as matched, with no default.
nameOrAlias_raw(groups) == groups.name

\* author.name ?? author.alias
nameOrAlias(groups) == IF groups.name = undefined THEN groups.alias ELSE groups.name

\* ({...author, name: author.name ?? author.alias, imageURL: ...})
toAuthor(groups) ==
    [name     |-> nameOrAlias(groups),
     alias    |-> groups.alias,
     url      |-> groups.url,
     imageURL |-> GithubPrefix \o groups.alias \o PngSuffix]

\* The committers of a section's content: [found, threw, list]. The chain
\* throws a TypeError when the block holds no "- " line (match gives null)
\* or when a "- " line does not match the committer pattern (null.groups).
parseAuthors(content) ==
    LET block == committersMatch(content)
    IN  IF ~block.found THEN [found |-> FALSE, threw |-> FALSE, list |-> <<>>]
        ELSE LET lines == bulletLines(block.text, 1)
             IN  IF lines = <<>> \/ \E k \in 1..Len(lines) : ~committerMatch(lines[k]).found
                 THEN [found |-> TRUE, threw |-> TRUE, list |-> <<>>]
                 ELSE [found |-> TRUE, threw |-> FALSE,
                       list  |-> sortByUrl([k \in 1..Len(lines) |->
                                              toAuthor(committerMatch(lines[k]))])]

\* Variant: an alias already in the registry keeps its first record.
setAuthor_keep(map, author) ==
    IF \E k \in 1..Len(map) : map[k].alias = author.alias THEN map ELSE Append(map, author)

\* authors.forEach((author) => { authorsMap[author.alias] = author; })
\* The registry is the object's entries in key order: a new key goes last,
\* an existing key keeps its place and takes the new value.
setAuthor(map, author) ==
    IF \E k \in 1..Len(map) : map[k].alias = author.alias
    THEN [k \in 1..Len(map) |-> IF map[k].alias = author.alias THEN author ELSE map[k]]
    ELSE Append(map, author)

RECURSIVE mergeAuthors(_, _)
mergeAuthors(map, authors) ==
    IF authors = <<>> THEN map
    ELSE mergeAuthors(setAuthor(map, Head(authors)), Tail(authors))

\* `${date}T${hour}:00`
publishTime(date, hour) == date \o <<"T">> \o NumberToString(hour) \o <<":", "0", "0">>

\* Variant: the search moves to later hours.
RECURSIVE freeHour_up(_, _, _)
freeHour_up(times, date, hour) ==
    IF publishTime(date, hour) \in times THEN freeHour_up(times, date, hour + 1) ELSE hour

\* let hour = 20; while (publishTimes.has(...)) { hour -= 1; }
RECURSIVE freeHour(_, _, _)
freeHour(times, date, hour) ==
    IF publishTime(date, hour) \in times THEN freeHour(times, date, hour - 1) ELSE hour

\* Variant: no search, every section is published at the starting hour.
assignHour_fixed(times, date) == StartHour

assignHour(times, date) == freeHour(times, date, StartHour)

\* content.replace(/####?/g, '##'): left to right, each match takes a
\* fourth hash when there is one.
RECURSIVE demoteHeadings(_)
demoteHeadings(s) ==
    LET i == IndexOf(s, <<"#", "#", "#">>)
        n == IF i # 0 /\ StartsAt(s, i, <<"#", "#", "#", "#">>) THEN 4 ELSE 3
    IN  IF i = 0 THEN s
        ELSE SubSeq(s, 1, i - 1) \o <<"#", "#">> \o demoteHeadings(SubSeq(s, i + n, Len(s)))

\* `authors:\n${ authors.map((author) => `  - '${ author.alias }'`).join('\n') }`
authorsMarkdown(parsed) ==
    IF ~parsed.found THEN <<>>
    ELSE <<"a", "u", "t", "h", "o", "r", "s", ":", NL>>
         \o join([k \in 1..Len(parsed.list) |->
                    <<" ", " ", "-", " ", "'">> \o parsed.list[k].alias \o <<"'">>],
                 <<NL>>)

\* [...].filter(Boolean): the empty strings are left out.
filterBoolean(parts) == SelectSeq(parts, LAMBDA part : part # <<>>)

DateLabel == <<"d", "a", "t", "e", ":", " ">>
TitleLabel == <<"t", "i", "t", "l", "e", ":", " ">>
Fence == <<"-", "-", "-">>
Truncate ==
    <<"<", "!", "-", "-", " ", "t", "r", "u", "n", "c", "a", "t", "e", " ", "-", "-", ">">>
CodeDiff == <<"[", "c", "o", "d", "e", " ", "d", "i", "f", "f", "]", "(">>

\* The document of lines 78-91.
document(title, diffLink, date, hour, parsed, content) ==
    join(filterBoolean(<<
            Fence,
            DateLabel \o publishTime(date, hour),
            TitleLabel \o title,
            authorsMarkdown(parsed),
            Fence,
            <<"#", " ">> \o title,
            Truncate,
            CodeDiff \o diffLink \o <<")">>,
            demoteHeadings(content)
         >>), <<NL>>)

\* The title of the match: titleLineMatch.groups.version.
sectionTitle(match) == match.version

\* processSection for a section whose title line matched.
processTitled(section, match, times, map) ==
    LET content == trim(ReplaceFirst(section, match.text, <<>>))
        parsed  == parseAuthors(content)
        date    == match.release_date
        hour    == assignHour(times, date)
    IN  IF parsed.threw
        THEN [threw |-> TRUE, result |-> <<>>, publishTimes |-> times, authorsMap |-> map]
        ELSE [threw        |-> FALSE,
              result       |-> <<[title   |-> sectionTitle(match),
                                  content |-> document(sectionTitle(match), match.compare_link,
                                                       date, hour, parsed, content),
                                  date    |-> date,
                                  hour    |-> hour,
                                  authors |-> parsed.list]>>,
              publishTimes |-> times \cup {publishTime(date, hour)},
              authorsMap   |-> mergeAuthors(map, parsed.list)]

\* Variant: the publish time is reserved before the title is looked at.
processSection_eager(section, times, map) ==
    LET match == titleLineMatch(section)
    IN  IF ~match.found
        THEN [threw |-> FALSE, result |-> <<>>,
              publishTimes |-> times \cup {publishTime(<<>>, assignHour(times, <<>>))},
              authorsMap |-> map]
        ELSE processTitled(section, match, times, map)

\* processSection(section) against the module-level publishTimes and
\* authorsMap: what it returns (result: empty for null, else the one
\* {title, content}, kept with the date, hour and committers it was built
\* from), whether it threw, and the two collections afterwards.
processSection(section, times, map) ==
    LET match == titleLineMatch(section)
    IN  IF ~match.found
        THEN [threw |-> FALSE, result |-> <<>>, publishTimes |-> times, authorsMap |-> map]
        ELSE processTitled(section, match, times, map)


\* ------------------------------------------------------------------------
\* CHANGELOG.md: the texts loadContent may read
\* ------------------------------------------------------------------------

\* A changelog is written down as its lines; Render gives the file's text.
Line(kind, level, version, link, date, text, form, name, alias, url) ==
    [kind |-> kind, level |-> level, version |-> version, link |-> link,
     date |-> date, text |-> text, form |-> form, name |-> name,
     alias |-> alias, url |-> url]

\* `## [version](link) (date)` with level hashes
Heading(level, version, link, date) ==
    Line("heading", level, version, link, date, <<>>, "", <<>>, <<>>, <<>>)

Text(text) == Line("text", 0, <<>>, <<>>, <<>>, text, "", <<>>, <<>>, <<>>)

\* `#### Committers: n`
Committers(n) == Line("committers", 0, <<>>, <<>>, <<>>, <<n>>, "", <<>>, <<>>, <<>>)

\* A committer line. Forms: "named"  - name ([@alias](url))
\*                          "bare"   - [@alias](url)
\*                          "plain"  - [alias](url)
\*                          "inline" - name [@alias](url)
Bullet(form, name, alias, url) ==
    Line("bullet", 0, <<>>, <<>>, <<>>, <<>>, form, name, alias, url)

RECURSIVE Hashes(_)
Hashes(n) == IF n = 0 THEN <<>> ELSE <<"#">> \o Hashes(n - 1)

RenderLine(l) ==
    CASE l.kind = "heading" ->
           Hashes(l.level) \o <<" ", "[">> \o l.version \o <<"]", "(">> \o l.link
           \o <<")", " ", "(">> \o l.date \o <<")">>
      [] l.kind = "text" -> l.text
      [] l.kind = "committers" -> <<"#", "#">> \o CommittersToken \o l.text
      [] l.kind = "bullet" ->
           CASE l.form = "named" ->
                  <<"-", " ">> \o l.name \o <<" ", "(", "[", "@">> \o l.alias
                  \o <<"]", "(">> \o l.url \o <<")", ")">>
             [] l.form = "bare" ->
                  <<"-", " ", "[", "@">> \o l.alias \o <<"]", "(">> \o l.url \o <<")">>
             [] l.form = "plain" ->
                  <<"-", " ", "[">> \o l.alias \o <<"]", "(">> \o l.url \o <<")">>
             [] l.form = "inline" ->
                  <<"-", " ">> \o l.name \o <<" ", "[", "@">> \o l.alias
                  \o <<"]", "(">> \o l.url \o <<")">>

Render(doc) == join([k \in 1..Len(doc) |-> RenderLine(doc[k])], <<NL>>)

V101 == <<"1", ".", "0", ".", "1">>
V100 == <<"1", ".", "0", ".", "0">>
V099 == <<"0", ".", "9", ".", "9">>
Link1 == <<"x", "/", "a", ".", ".", "b">>
Link2 == <<"x", "/", "b", ".", ".", "c">>
Day1 == <<"2", "0", "2", "0", "-", "0", "1", "-", "0", "1">>
Day2 == <<"2", "0", "2", "0", "-", "0", "1", "-", "0", "2">>
Notes == <<"s", "o", "m", "e", " ", "n", "o", "t", "e", "s">>
Preamble == <<"#", " ", "C", "h", "a", "n", "g", "e", "l", "o", "g">>
Fixes == <<"#", "#", "#", " ", "F", "i", "x", "e", "s">>
Features == <<"#", "#", "#", "#", " ", "N", "e", "w">>
FixLine == <<"-", " ", "f", "i", "x", " ", "<", "b", ">">>
Jan == <<"J", "a", "n">>
Janek == <<"J", "a", "n", "e", "k">>
AliasJm == <<"j", "m">>
AliasAb == <<"a", "b">>
UrlJm == <<"g", "/", "j", "m">>
UrlJan == <<"g", "/", "j", "a", "n">>
UrlAb == <<"g", "/", "a", "b">>

\* ""
EmptyLog == <<>>

\* a preamble and no release
PreambleLog == <<Text(Preamble), Text(<<>>), Text(Notes)>>

\* "\n## [1.0.1](x/a..b) (2020-01-01)\n\nsome notes\n"
ExampleLog ==
    <<Text(<<>>), Heading(2, V101, Link1, Day1), Text(<<>>), Text(Notes), Text(<<>>)>>

\* three releases, two of them on one day, with committers blocks that
\* share an alias
SameDayLog ==
    <<Text(Preamble), Text(<<>>),
      Heading(2, V101, Link2, Day2), Text(<<>>), Text(Fixes), Text(FixLine), Text(<<>>),
      Committers("2"), Bullet("named", Jan, AliasJm, UrlJm), Bullet("bare", <<>>, AliasAb, UrlAb),
      Text(<<>>),
      Heading(1, V100, Link1, Day2), Text(<<>>),
      Committers("1"), Bullet("named", Janek, AliasJm, UrlJan),
      Heading(3, V099, Link1, Day1), Text(Features)>>

\* the first release heading is the first line of the file
FirstLineLog ==
    <<Heading(2, V101, Link2, Day2), Text(Notes),
      Heading(2, V100, Link1, Day1), Text(Notes),
      Committers("1"), Bullet("bare", <<>>, AliasJm, UrlJm)>>

\* the only release heading is the first line of the file
OnlyHeadingLog == <<Heading(2, V100, Link1, Day1), Text(<<>>), Text(Notes)>>

\* one version released twice
DuplicateLog ==
    <<Text(Preamble),
      Heading(2, V101, Link2, Day1), Text(Notes),
      Heading(2, V101, Link1, Day1), Text(Fixes)>>

\* a committer line without "@"
PlainLog ==
    <<Text(Preamble),
      Heading(2, V100, Link1, Day1), Text(Notes),
      Heading(2, V099, Link1, Day1),
      Committers("1"), Bullet("plain", <<>>, AliasAb, UrlAb)>>

\* a committer line with a display name that is not followed by " ("
InlineLog ==
    <<Text(<<>>),
      Heading(2, V100, Link1, Day2),
      Committers("1"), Bullet("inline", Jan, AliasJm, UrlJm)>>

Changelogs ==
    {EmptyLog, PreambleLog, ExampleLog, SameDayLog, FirstLineLog, OnlyHeadingLog,
     DuplicateLog, PlainLog, InlineLog}


\* ------------------------------------------------------------------------
\* State
\* ------------------------------------------------------------------------

VARIABLES
    publishTimes,     \* the module-level Set of reserved `${date}T${hour}:00`
    authorsMap,       \* the module-level registry, entries in key order
    pc,               \* where the current loadContent invocation stands
    runs,             \* loadContent invocations started so far
    changelog,        \* the lines of the CHANGELOG.md the invocation read
    chunks,           \* sanitised.split(...)
    idx,              \* the chunk .map(processSection) hands over next
    sections,         \* the results kept by .filter(Boolean), so far
    pending,          \* the section writes issued and not yet completed
    files,            \* <generateDir>/<title>.md: path and content
    authorsJson,      \* <generateDir>/authors.json: <<>> or <<entries>>
    produced,         \* history: every result processSection returned, in order
    events,           \* history: the file-system and plugin calls of this run
    outputs,          \* history: what every finished invocation read and wrote
    pathname,         \* history.location.pathname
    packages,         \* props.packages: each package's first entry point's permalink
    latestVersion,    \* useDocsVersion().version
    preferredVersion, \* useDocsPreferredVersion().preferredVersion?.name
    effectDue,        \* the effect's dependencies changed since it last ran
    effects,          \* how many times the effect has run
    replaced          \* history: the last history.replace, [from, to]

changelogVars ==
    <<publishTimes, authorsMap, pc, runs, changelog, chunks, idx, sections, pending,
      files, authorsJson, produced, events, outputs>>

viewVars ==
    <<pathname, packages, latestVersion, preferredVersion, effectDue, effects, replaced>>

vars == <<changelogVars, viewVars>>

\* ------------------------------------------------------------------------
\* plugins/changelog/index.js: loadContent
\* ------------------------------------------------------------------------

MdSuffix == <<".", "m", "d">>

\* path.join(generateDir, `${section.title}.md`), relative to generateDir
sectionPath(section) == section.title \o MdSuffix

\* fs.outputFile(path, content): the file at path holds content afterwards.
outputFile(dir, path, content) ==
    {f \in dir : f.path # path} \cup {[path |-> path, content |-> content]}

\* Variant: the section writes are not awaited.
allWritesSettled_now == TRUE

\* await Promise.all(...): every section write has completed.
allWritesSettled == pending = {}

\* The state the module is loaded in, before the first loadContent.
InitChangelog ==
    /\ publishTimes = {}
    /\ authorsMap = <<>>
    /\ pc = "idle"
    /\ runs = 0
    /\ changelog = <<>>
    /\ chunks = <<>>
    /\ idx = 1
    /\ sections = <<>>
    /\ pending = {}
    /\ files = {}
    /\ authorsJson = <<>>
    /\ produced = <<>>
    /\ events = <<>>
    /\ outputs = <<>>

\* loadContent, lines 112-120: read the changelog, sanitise it and split it.
\* The hook runs again after it has ended, well or with an error.
ReadChangelog(doc) ==
    /\ pc \in {"idle", "done", "failed"}
    /\ runs < MaxRuns
    /\ runs' = runs + 1
    /\ changelog' = doc
    /\ chunks' = split(sanitise(Render(doc)))
    /\ idx' = 1
    /\ sections' = <<>>
    /\ pending' = {}
    /\ events' = <<>>
    /\ pc' = "map"
    /\ UNCHANGED <<publishTimes, authorsMap, files, authorsJson, produced, outputs>>
    /\ UNCHANGED viewVars

\* loadContent, lines 121-122: .map(processSection).filter(Boolean), one
\* chunk at a time. A TypeError thrown by processSection rejects loadContent.
MapSection ==
    /\ pc = "map"
    /\ LET r == processSection(chunks[idx], publishTimes, authorsMap)
       IN  IF r.threw
           THEN /\ pc' = "failed"
                /\ UNCHANGED <<publishTimes, authorsMap, idx, sections, produced>>
           ELSE /\ publishTimes' = r.publishTimes
                /\ authorsMap' = r.authorsMap
                /\ sections' = sections \o r.result
                /\ produced' = produced \o r.result
                /\ idx' = idx + 1
                /\ pc' = IF idx = Len(chunks) THEN "issue" ELSE "map"
    /\ UNCHANGED <<runs, changelog, chunks, pending, files, authorsJson, events, outputs>>
    /\ UNCHANGED viewVars

\* loadContent, lines 123-130: one fs.outputFile call per section, all
\* issued before any is awaited.
IssueWrites ==
    /\ pc = "issue"
    /\ pending' = 1..Len(sections)
    /\ pc' = "writing"
    /\ UNCHANGED <<publishTimes, authorsMap, runs, changelog, chunks, idx, sections,
                   files, authorsJson, produced, events, outputs>>
    /\ UNCHANGED viewVars

\* One of the issued writes completes; they complete in any order.
CompleteWrite(i) ==
    /\ pc = "writing"
    /\ i \in pending
    /\ files' = outputFile(files, sectionPath(sections[i]), sections[i].content)
    /\ pending' = pending \ {i}
    /\ events' = Append(events, [call |-> "outputFile", path |-> sectionPath(sections[i])])
    /\ UNCHANGED <<publishTimes, authorsMap, pc, runs, changelog, chunks, idx, sections,
                   authorsJson, produced, outputs>>
    /\ UNCHANGED viewVars

AuthorsPath == <<"a", "u", "t", "h", "o", "r", "s", ".", "j", "s", "o", "n">>

\* loadContent, lines 131-132: after Promise.all, authors.json takes
\* JSON.stringify(authorsMap, null, 2): the registry's entries in key order.
WriteAuthors ==
    /\ pc = "writing"
    /\ allWritesSettled
    /\ authorsJson' = <<authorsMap>>
    /\ events' = Append(events, [call |-> "outputFile", path |-> AuthorsPath])
    /\ pc' = "blog"
    /\ UNCHANGED <<publishTimes, authorsMap, runs, changelog, chunks, idx, sections,
                   pending, files, produced, outputs>>
    /\ UNCHANGED viewVars

\* loadContent, lines 133-142: the wrapped blog plugin loads the generated
\* directory, and loadContent returns.
BlogLoadContent ==
    /\ pc = "blog"
    /\ events' = Append(events, [call |-> "blogPlugin.loadContent", path |-> <<>>])
    /\ outputs' = Append(outputs, [changelog |-> changelog,
                                   sections  |-> sections,
                                   authors   |-> authorsJson])
    /\ pc' = "done"
    /\ UNCHANGED <<publishTimes, authorsMap, runs, changelog, chunks, idx, sections,
                   pending, files, authorsJson, produced>>
    /\ UNCHANGED viewVars


\* ------------------------------------------------------------------------
\* components/ApiIndex.tsx
\* ------------------------------------------------------------------------

Current == <<"c", "u", "r", "r", "e", "n", "t">>
NextName == <<"n", "e", "x", "t">>
ApiSlash == <<"a", "p", "i", "/">>
ApiNext == <<"a", "p", "i", "/", "n", "e", "x", "t">>
SlashApi == <<"/", "a", "p", "i">>
SlashApiSlash == <<"/", "a", "p", "i", "/">>

\* url.match(/api\/([\d.]+)/)
matchesVersionedApi(url) ==
    \E i \in 1..(Len(url) - Len(ApiSlash)) :
        /\ StartsAt(url, i, ApiSlash)
        /\ url[i + Len(ApiSlash)] \in Digits \cup {"."}

\* preferredVersion.name === 'current' ? 'next' : preferredVersion.name
versionSegment(preferred) == IF preferred = Current THEN NextName ELSE preferred

\* Variant: the preferred version is not compared with the latest one.
needsVersion_any(url, latest, preferred) ==
    /\ ~matchesVersionedApi(url)
    /\ ~includes(url, ApiNext)
    /\ preferred # undefined

\* The condition of lines 32-37; preferred is undefined or the name of the
\* preferred version, latest is latestVersion.version.
needsVersion(url, latest, preferred) ==
    /\ ~matchesVersionedApi(url)
    /\ ~includes(url, ApiNext)
    /\ preferred # undefined
    /\ preferred # latest

addVersionToUrl(url, latest, preferred) ==
    IF needsVersion(url, latest, preferred)
    THEN IF endsWith(url, SlashApi)
         THEN url \o <<"/">> \o versionSegment(preferred)
         ELSE ReplaceFirst(url, SlashApiSlash,
                           SlashApiSlash \o versionSegment(preferred) \o <<"/">>)
    ELSE url

V30 == <<"3", ".", "0">>
V20 == <<"2", ".", "0">>
Beta == <<"b", "e", "t", "a">>
CorePath == <<"/", "a", "p", "i", "/", "c", "o", "r", "e">>
WebPath == <<"/", "a", "p", "i", "/", "w", "e", "b">>

\* Paths the index view is mounted at, or that a permalink may be.
Paths ==
    {SlashApi, SlashApiSlash, CorePath,
     <<"/", "a", "p", "i", "/", "n", "e", "x", "t">>,
     <<"/", "a", "p", "i", "/", "2", ".", "0", "/">>,
     <<"/", "d", "o", "c", "s", "/", "a", "p", "i">>,
     <<"/", "d", "o", "c", "s">>}

PackageLists == {<<>>, <<CorePath>>, <<WebPath>>, <<CorePath, WebPath>>}
LatestVersions == {V30, V20}
PreferredVersions == {undefined, V30, V20, Current, Beta}

InitView ==
    /\ pathname \in Paths
    /\ packages \in PackageLists
    /\ latestVersion \in LatestVersions
    /\ preferredVersion \in PreferredVersions
    /\ effectDue = TRUE
    /\ effects = 0
    /\ replaced = <<>>

\* The view as it stands while the changelog plugin runs.
ViewAtRest ==
    /\ pathname = SlashApi
    /\ packages = <<>>
    /\ latestVersion = V30
    /\ preferredVersion = undefined
    /\ effectDue = FALSE
    /\ effects = 0
    /\ replaced = <<>>

\* A render with another packages prop, latest version or preferred
\* version: the effect's dependencies changed.
Rerender(pk, lv, pv) ==
    /\ <<pk, lv, pv>> # <<packages, latestVersion, preferredVersion>>
    /\ packages' = pk
    /\ latestVersion' = lv
    /\ preferredVersion' = pv
    /\ effectDue' = TRUE
    /\ UNCHANGED <<pathname, effects, replaced>>
    /\ UNCHANGED changelogVars

\* history.replace(path)
historyReplace(path) ==
    /\ pathname' = path
    /\ replaced' = <<[from |-> pathname, to |-> path]>>

\* The effect of lines 58-73.
RunEffect ==
    /\ effectDue
    /\ effects < MaxEffects
    /\ IF Len(packages) = 1
       THEN historyReplace(addVersionToUrl(packages[1], latestVersion, preferredVersion))
       ELSE IF preferredVersion # undefined
       THEN historyReplace(addVersionToUrl(pathname, latestVersion, preferredVersion))
       ELSE UNCHANGED <<pathname, replaced>>
    /\ effectDue' = FALSE
    /\ effects' = effects + 1
    /\ UNCHANGED <<packages, latestVersion, preferredVersion>>
    /\ UNCHANGED changelogVars

\* ------------------------------------------------------------------------
\* Specifications
\* ------------------------------------------------------------------------

Init == InitChangelog /\ ViewAtRest

Next ==
    \/ \E doc \in Changelogs : ReadChangelog(doc)
    \/ MapSection
    \/ IssueWrites
    \/ \E i \in 1..Len(sections) : CompleteWrite(i)
    \/ WriteAuthors
    \/ BlogLoadContent

\* The changelog plugin.
Spec == Init /\ [][Next]_vars

InitIndex == InitChangelog /\ InitView

NextIndex ==
    \/ \E pk \in PackageLists, lv \in LatestVersions, pv \in PreferredVersions :
          Rerender(pk, lv, pv)
    \/ RunEffect

\* The API index view.
SpecIndex == InitIndex /\ [][NextIndex]_vars


\* ------------------------------------------------------------------------
\* The changelog as written, for stating the properties
\* ------------------------------------------------------------------------

Range(seq) == {seq[k] : k \in 1..Len(seq)}

\* The lines that are release headings.
HeadingLines(doc) == {k \in 1..Len(doc) : doc[k].kind = "heading"}

\* The release headings that follow a line break: all but one on line 1.
SectionLines(doc) == {k \in HeadingLines(doc) : k >= 2}

\* The heading line of the section that line k belongs to; 0 before the
\* first heading that follows a line break.
SectionStart(doc, k) ==
    LET hs == {h \in SectionLines(doc) : h <= k}
    IN  IF hs = {} THEN 0 ELSE Max(hs)

\* The rank of the section headed at line h among the sections.
Ordinal(doc, h) == Cardinality({j \in SectionLines(doc) : j <= h})

\* The n-th of a set of line numbers.
Nth(lines, n) == CHOOSE k \in lines : Cardinality({j \in lines : j <= k}) = n

\* The text starts with a line break and a heading: the first chunk is the
\* first section, and no chunk precedes it.
Leading(doc) == Len(doc) >= 2 /\ doc[1] = Text(<<>>) /\ doc[2].kind = "heading"

\* The chunk that holds the section of rank o.
ChunkOf(doc, o) == IF Leading(doc) THEN o ELSE o + 1

\* Line k lies in the committers block of its section: a committers header
\* precedes it since the section's heading.
InBlock(doc, k) ==
    /\ SectionStart(doc, k) # 0
    /\ \E c \in (SectionStart(doc, k) + 1)..(k - 1) : doc[c].kind = "committers"

\* The committer lines of the blocks.
BlockBullets(doc) == {k \in 1..Len(doc) : doc[k].kind = "bullet" /\ InBlock(doc, k)}

\* The committer a line stands for.
Committer(l) ==
    [name     |-> IF l.form \in {"named", "inline"} THEN l.name ELSE l.alias,
     alias    |-> l.alias,
     url      |-> l.url,
     imageURL |-> GithubPrefix \o l.alias \o PngSuffix]

\* The convention the plugin is written for: every release heading follows
\* a line break, no version is released twice or holds an angle bracket,
\* and a committers block holds committer lines of the two forms
\* `- name ([@alias](url))` and `- [@alias](url)`, at least one, and no
\* other line with "- " in it.
Conventional(doc) ==
    /\ HeadingLines(doc) = SectionLines(doc)
    /\ \A h, j \in HeadingLines(doc) : doc[h].version = doc[j].version => h = j
    /\ \A h \in HeadingLines(doc) : ~includes(doc[h].version, <<"<">>)
                                    /\ ~includes(doc[h].version, <<">">>)
    /\ \A k \in 1..Len(doc) :
          /\ doc[k].kind = "committers" /\ SectionStart(doc, k) # 0
                => \E b \in BlockBullets(doc) : SectionStart(doc, b) = SectionStart(doc, k)
          /\ k \in BlockBullets(doc) => doc[k].form \in {"named", "bare"}
          /\ doc[k].kind = "text" /\ InBlock(doc, k) => ~includes(doc[k].text, <<"-", " ">>)

\* loadContent has mapped every chunk and not thrown.
Mapped == pc \in {"issue", "writing", "blog", "done"}

\* The `date: ...` value of a document's header: the second line, after
\* "---\ndate: ".
HeaderStamp(content) == SubSeq(content, 11, LineEnd(content, 11) - 1)

DistinctTitles ==
    \A i, j \in 1..Len(sections) : sections[i].title = sections[j].title => i = j

\* ------------------------------------------------------------------------
\* Properties
\* ------------------------------------------------------------------------

\* The documents are one per release heading, in order, each titled with
\* its heading's version, no title twice.
OnePerHeading(lines) ==
    /\ Len(sections) = Cardinality(lines)
    /\ \A i \in 1..Len(sections) : sections[i].title = changelog[Nth(lines, i)].version
    /\ DistinctTitles

\* C1 as stated: for every changelog text with N release headings, the
\* extractor produces exactly N documents, each with a unique title equal to
\* its heading's version string.
C1_EveryText == Mapped => OnePerHeading(HeadingLines(changelog))

\* C1 as amended: for every changelog text in the plugin's convention (each
\* release heading follows a line break, versions are pairwise distinct and
\* free of angle brackets, committers blocks hold committer lines of the two
\* supported forms), the extractor does not throw and produces exactly N
\* documents, each with a unique title equal to its heading's version string.
C1_ConventionalText ==
    Conventional(changelog) =>
        /\ pc # "failed"
        /\ Mapped => OnePerHeading(HeadingLines(changelog))

C1_Witness ==
    /\ Mapped
    /\ Conventional(changelog)
    /\ Len(sections) = 3
    /\ \E h \in HeadingLines(changelog) : changelog[h].level # 2

\* No two documents, of this or an earlier invocation, carry one timestamp.
C2_StampsDistinct ==
    \A m, n \in 1..Len(produced) :
        HeaderStamp(produced[m].content) = HeaderStamp(produced[n].content) => m = n

\* A step that adds a document reserves the timestamp of its header.
C2_StampFresh ==
    Len(sections') = Len(sections) + 1 =>
        /\ HeaderStamp(sections'[Len(sections')].content) \notin publishTimes
        /\ HeaderStamp(sections'[Len(sections')].content) \in publishTimes'

\* C2: no two sections that produced a document share a publish timestamp,
\* and the timestamp in a document's header was not in publishTimes right
\* before its section was processed and is in it right after.
C2_UniqueTimestamps == []C2_StampsDistinct /\ [][C2_StampFresh]_vars

C2_Witness ==
    \E m, n \in 1..Len(produced) :
        /\ m < n
        /\ produced[m].date = produced[n].date

\* C3: among the sections of one changelog, in changelog order, the hours
\* given to sections with the same release date strictly decrease (the
\* topmost release has the highest hour), and each header carries its hour.
C3_HoursDecrease ==
    /\ \A i \in 1..Len(sections) :
          HeaderStamp(sections[i].content)
            = sections[i].date \o <<"T">> \o NumberToString(sections[i].hour)
              \o <<":", "0", "0">>
    /\ \A i, j \in 1..Len(sections) :
          i < j /\ sections[i].date = sections[j].date
            => sections[i].hour >= sections[j].hour + 1

C3_Witness ==
    \E i, j \in 1..Len(sections) :
        /\ i < j
        /\ sections[i].date = sections[j].date
        /\ sections[j].hour < StartHour - 1

\* C4 as stated: what an invocation writes depends only on the text it
\* read: two invocations on the same text write the same documents and the
\* same authors.json.
C4_PerInvocation ==
    \A m, n \in 1..Len(outputs) :
        outputs[m].changelog = outputs[n].changelog
          => /\ outputs[m].sections = outputs[n].sections
             /\ outputs[m].authors = outputs[n].authors

\* C5: every alias that a processed committers block lists has exactly one
\* record in the registry, a record of the last processed section that
\* lists the alias.
C5_LastSectionWins ==
    \A n \in 1..Len(produced) : \A a \in Range(produced[n].authors) :
        LET last == Max({m \in 1..Len(produced) :
                           \E x \in Range(produced[m].authors) : x.alias = a.alias})
            held == {k \in 1..Len(authorsMap) : authorsMap[k].alias = a.alias}
        IN  /\ Cardinality(held) = 1
            /\ \A k \in held :
                  /\ authorsMap[k] \in Range(produced[last].authors)
                  /\ authorsMap[k].alias = a.alias

C5_Witness ==
    \E m, n \in 1..Len(produced) :
        /\ m < n
        /\ \E x \in Range(produced[m].authors), y \in Range(produced[n].authors) :
              x.alias = y.alias /\ x.name # y.name /\ y \in Range(authorsMap)


\* C6 as stated: addVersionToUrl is idempotent: with the latest and the
\* preferred version unchanged, applying it to its own output gives that
\* output again. Checked on the path the effect last passed to
\* history.replace, while the versions are those the effect ran with.
C6_Idempotent ==
    ~effectDue /\ replaced # <<>> =>
        addVersionToUrl(replaced[1].to, latestVersion, preferredVersion) = replaced[1].to

\* The committer lines of the sections that processSection was handed.
Handed(o) ==
    \/ idx > ChunkOf(changelog, o)
    \/ idx = ChunkOf(changelog, o) /\ pc = "failed"

Yields(k) ==
    LET o == Ordinal(changelog, SectionStart(changelog, k))
    IN  /\ o <= Len(sections)
        /\ Committer(changelog[k]) \in Range(sections[o].authors)

\* C7 as stated: every bullet line of a committers block yields a committer
\* record; `- [alias](url)` yields name = alias and `- name [@alias](url)`
\* yields the name given.
C7_EveryBullet ==
    \A k \in BlockBullets(changelog) :
        Handed(Ordinal(changelog, SectionStart(changelog, k))) => Yields(k)

\* C7 as amended: `- [@alias](url)` yields name = alias, and
\* `- name ([@alias](url))` yields the name given; every bullet line of one
\* of these two forms, in a committers block whose lines all are, yields a
\* committer record with the alias, the url, the name (the alias when no
\* name is given) and the imageURL https://github.com/<alias>.png.
C7_SupportedBullets ==
    \A k \in BlockBullets(changelog) :
        /\ changelog[k].form \in {"named", "bare"}
        /\ Ordinal(changelog, SectionStart(changelog, k)) <= Len(sections)
        => Yields(k)

C7_Witness ==
    \E k, n \in BlockBullets(changelog) :
        /\ changelog[k].form = "bare"
        /\ changelog[n].form = "named"
        /\ Yields(k)
        /\ Yields(n)

\* What a run of the effect does to the path.
C8_EffectStep ==
    effects' # effects =>
        /\ Len(packages) = 1 =>
              /\ pathname' = addVersionToUrl(packages[1], latestVersion, preferredVersion)
              /\ preferredVersion \in {undefined, latestVersion} => pathname' = packages[1]
        /\ Len(packages) # 1 /\ pathname' # pathname =>
              /\ preferredVersion \notin {undefined, latestVersion}
              /\ preferredVersion = Current => includes(pathname', <<"/">> \o ApiNext)
              /\ preferredVersion # Current => includes(pathname', preferredVersion)
        /\ Len(packages) # 1 /\ preferredVersion \in {undefined, latestVersion} =>
              pathname' = pathname

\* C8: a run of the effect with exactly one package replaces the location
\* with that package's first permalink adjusted for version; otherwise it
\* changes the path only if there is a preferred version that differs from
\* the latest one (to the "next" segment when that version is "current"),
\* and leaves the path as it is when the preferred version is absent or is
\* the latest one.
C8_Redirect == [][C8_EffectStep]_vars

C8_Witness ==
    /\ ~effectDue
    /\ Len(packages) = 2
    /\ preferredVersion = Current
    /\ replaced # <<>>
    /\ replaced[1].from # replaced[1].to
    /\ replaced[1].to = pathname

\* The step that hands processSection the chunk before the first title
\* line: nothing is returned, thrown, reserved, registered or written.
C9_UntitledStep ==
    pc = "map" /\ idx = 1 /\ ~Leading(changelog) =>
        /\ pc' # "failed"
        /\ idx' = 2
        /\ UNCHANGED <<publishTimes, authorsMap, sections, produced, files, authorsJson,
                       pending, events>>

\* A text with no titled section is mapped without an error, to no document
\* and no section file.
C9_NoTitleNoDocument ==
    (Mapped \/ pc = "failed") /\ SectionLines(changelog) = {} =>
        /\ Mapped
        /\ sections = <<>>
        /\ \A k \in 1..Len(events) : events[k].path \in {AuthorsPath, <<>>}

\* C9: a chunk with no title line is dropped: processSection returns
\* nothing for it, does not throw, and leaves publishTimes, authorsMap and
\* the files alone; a text with no titled section (the empty text too)
\* yields no document.
C9_UntitledDropped == []C9_NoTitleNoDocument /\ [][C9_UntitledStep]_vars

C9_Witness ==
    /\ pc = "done"
    /\ chunks # <<<<>>>>
    /\ HeadingLines(changelog) # {}
    /\ sections = <<>>
    /\ publishTimes = {}

IsSectionWrite(e) == e.call = "outputFile" /\ e.path # AuthorsPath
IsAuthorsWrite(e) == e.call = "outputFile" /\ e.path = AuthorsPath
IsBlogLoad(e) == e.call = "blogPlugin.loadContent"

\* Every section's file holds the section's content once the writes are in.
FilesSettled ==
    pc \in {"blog", "done"} =>
        \A i \in 1..Len(sections) :
            [path |-> sectionPath(sections[i]), content |-> sections[i].content] \in files

\* authors.json is written at most once, after as many section writes as
\* there are sections and before no other; the blog plugin loads after it.
WritesOrdered ==
    /\ Cardinality({k \in 1..Len(events) : IsAuthorsWrite(events[k])})
         = (IF pc \in {"blog", "done"} THEN 1 ELSE 0)
    /\ \A k \in 1..Len(events) :
          /\ IsAuthorsWrite(events[k]) =>
                /\ Cardinality({j \in 1..(k - 1) : IsSectionWrite(events[j])}) = Len(sections)
                /\ \A j \in (k + 1)..Len(events) : ~IsSectionWrite(events[j])
          /\ IsBlogLoad(events[k]) => \E j \in 1..(k - 1) : IsAuthorsWrite(events[j])

\* C10 as stated: the section writes of one invocation go to pairwise
\* distinct paths, so the files do not depend on the order the writes
\* complete in; authors.json is written once, after every section write;
\* the blog plugin loads after authors.json is written.
C10_DistinctPaths ==
    /\ pc \in {"writing", "blog", "done"} =>
          \A i, j \in 1..Len(sections) :
              sectionPath(sections[i]) = sectionPath(sections[j]) => i = j
    /\ FilesSettled
    /\ WritesOrdered

\* C10 as amended: when the documents' titles are pairwise distinct, the
\* section writes go to pairwise distinct paths and every section's file
\* holds that section's content whatever order the writes complete in; in
\* every case authors.json is written once, after every section write, and
\* the blog plugin loads after authors.json is written.
C10_DistinctTitles ==
    /\ DistinctTitles /\ pc \in {"writing", "blog", "done"} =>
          \A i, j \in 1..Len(sections) :
              sectionPath(sections[i]) = sectionPath(sections[j]) => i = j
    /\ DistinctTitles => FilesSettled
    /\ WritesOrdered

C10_Witness ==
    /\ pc = "done"
    /\ Len(sections) = 3
    /\ DistinctTitles
    /\ events[1].path = sectionPath(sections[3])
    /\ IsAuthorsWrite(events[4])
    /\ IsBlogLoad(events[5])


====
